---- MODULE Spec2Model ----
(***************************************************************************)
(* Contact repository of the contacts API: the rows of the contacts table, *)
(* the repository functions of src/repository/contacts.py, the derived     *)
(* value of src/database/models.py and the route handlers of               *)
(* src/routes/contacts.py that call them.                                  *)
(***************************************************************************)
EXTENDS Integers, Sequences, FiniteSets, TLC

VARIABLES db, nextId, now, resp, sessions

vars == <<db, nextId, now, resp, sessions>>

(* ------------------------------ bounds --------------------------------- *)

\* Cap on the primary keys the contacts sequence hands out.
MaxId == 2

\* Resolution of the time of day: a day is TicksPerDay clock ticks long.
TicksPerDay == 2

\* The ids of the registered users.
Users == {1, 2}

(* ------------------------------ calendar ------------------------------- *)

\* A datetime value: a calendar date and a time of day in ticks.
DT(y, m, d, t) == [year |-> y, month |-> m, day |-> d, tod |-> t]

IsLeap(y) == (y % 4 = 0 /\ y % 100 # 0) \/ y % 400 = 0

DaysInMonth(y, m) ==
    CASE m \in {1, 3, 5, 7, 8, 10, 12} -> 31
      [] m \in {4, 6, 9, 11} -> 30
      [] OTHER -> IF IsLeap(y) THEN 29 ELSE 28

\* datetime(y, m, d) and datetime.replace(year=y) raise ValueError otherwise.
ValidDate(y, m, d) == m \in 1..12 /\ d \in 1..DaysInMonth(y, m)

DaysBeforeYear(y) ==
    (y - 1) * 365 + ((y - 1) \div 4) - ((y - 1) \div 100) + ((y - 1) \div 400)

RECURSIVE DaysBeforeMonth(_, _)
DaysBeforeMonth(y, m) ==
    IF m = 1 THEN 0 ELSE DaysBeforeMonth(y, m - 1) + DaysInMonth(y, m - 1)

\* Proleptic Gregorian ordinal of the date of dt (date.toordinal()).
ToOrdinal(dt) == DaysBeforeYear(dt.year) + DaysBeforeMonth(dt.year, dt.month) + dt.day

\* The datetime as a number of ticks: the order of datetimes is the order
\* of their stamps, and a difference of stamps is a timedelta.
Stamp(dt) == ToOrdinal(dt) * TicksPerDay + dt.tod

\* dt + timedelta(days=k), for a k that stays within the year after dt's.
AddDays(dt, k) ==
    LET n == ToOrdinal(dt) + k
        y == IF n > DaysBeforeYear(dt.year + 1) THEN dt.year + 1 ELSE dt.year
        m == CHOOSE mm \in 1..12 :
                 /\ DaysBeforeYear(y) + DaysBeforeMonth(y, mm) < n
                 /\ n <= DaysBeforeYear(y) + DaysBeforeMonth(y, mm) + DaysInMonth(y, mm)
    IN  DT(y, m, n - DaysBeforeYear(y) - DaysBeforeMonth(y, m), dt.tod)

\* to_char(ts, 'MM-DD'): the character codes of the five characters.
to_char(dt) ==
    << 48 + (dt.month \div 10), 48 + (dt.month % 10), 45,
       48 + (dt.day \div 10), 48 + (dt.day % 10) >>

\* s <= t for two texts of the same length, character by character.
RECURSIVE TextLeq(_, _)
TextLeq(s, t) ==
    IF s = << >> THEN TRUE
    ELSE IF Head(s) # Head(t) THEN Head(s) < Head(t)
    ELSE TextLeq(Tail(s), Tail(t))

(* ------------------------------- texts --------------------------------- *)

\* Texts that the store matches with ILIKE are sequences of characters.
Lower(c) ==
    CASE c = "T" -> "t" [] c = "A" -> "a" [] c = "S" -> "s" [] c = "H" -> "h"
      [] c = "L" -> "l" [] c = "E" -> "e" [] c = "U" -> "u" [] c = "K" -> "k"
      [] c = "X" -> "x" [] OTHER -> c

\* text LIKE pattern of the store, letters compared ignoring case (ILIKE):
\* '%' stands for any run of characters, '_' for any one character, and a
\* backslash makes the next pattern character literal. The whole text must
\* match. (A pattern ending in a lone backslash is rejected by the store; it
\* matches nothing here.)
RECURSIVE ILike(_, _)
ILike(text, pattern) ==
    IF pattern = << >> THEN text = << >>
    ELSE IF Head(pattern) = "%"
         THEN ILike(text, Tail(pattern))
              \/ (text # << >> /\ ILike(Tail(text), pattern))
    ELSE IF Head(pattern) = "\\"
         THEN /\ Len(pattern) >= 2
              /\ text # << >>
              /\ Lower(Head(text)) = Lower(pattern[2])
              /\ ILike(Tail(text), Tail(Tail(pattern)))
    ELSE IF Head(pattern) = "_"
         THEN text # << >> /\ ILike(Tail(text), Tail(pattern))
    ELSE /\ text # << >>
         /\ Lower(Head(text)) = Lower(Head(pattern))
         /\ ILike(Tail(text), Tail(pattern))

(* ------------------------------- inputs -------------------------------- *)

\* Validated request bodies (ContactModel): the domain of an email is lower
\* case, its local part is kept as typed and may hold '_' and '%'.
Body1 ==
    [firstname |-> <<"T", "a">>, lastname |-> <<"S", "h">>,
     birthday |-> DT(2000, 2, 29, 0), phone |-> "+380501234567",
     email |-> <<"t", "_", "@", "u">>, notes |-> "grave"]

Body2 ==
    [firstname |-> <<"L", "e">>, lastname |-> <<"U", "k">>,
     birthday |-> DT(1990, 12, 28, 1), phone |-> "+380509999999",
     email |-> <<"T", "x", "@", "u">>, notes |-> ""]

Bodies == {Body1, Body2}

\* Search texts of the two name searches.
Texts == {<<"t", "A">>, <<"_", "h">>}

\* The instants the clock shows: a day of the last week of a common year and
\* the leap day after it.
ClockInstants == {DT(2023, 12, 28, 1), DT(2024, 2, 29, 1)}

\* Path(ge=1): the contact ids a request may name.
Ids == 1..(MaxId + 1)

\* The update requests that may be in progress at the same time, each with
\* the database session of its own that Depends(get_db) gives it.
Reqs == {1, 2}

(* ----------------------------- the model ------------------------------- *)

\* Python's None.
None == [none |-> TRUE]

\* The six fields of ContactModel.
BodyFields == {"firstname", "lastname", "birthday", "phone", "email", "notes"}

\* Query.first(): the row the query returns first, None without one.
first(rows) == IF rows = {} THEN None ELSE CHOOSE c \in rows : TRUE

\* Contact.days_to_next_birthday. The result is [raised, value]: raised when
\* replace(year=...) or datetime(...) gets a day the month of that year does
\* not have (ValueError), else value is timedelta.days.
days_to_next_birthday(self, today) ==
    LET b == self.birthday
    IN  IF ~ValidDate(today.year, b.month, b.day)
        THEN [raised |-> TRUE, value |-> 0]
        ELSE LET this_year == DT(today.year, b.month, b.day, b.tod)
             IN  IF Stamp(this_year) < Stamp(today)
                 THEN IF ~ValidDate(today.year + 1, b.month, b.day)
                      THEN [raised |-> TRUE, value |-> 0]
                      ELSE [raised |-> FALSE,
                            value |-> (Stamp(DT(today.year + 1, b.month, b.day, 0))
                                       - Stamp(today)) \div TicksPerDay]
                 ELSE [raised |-> FALSE,
                       value |-> (Stamp(this_year) - Stamp(today)) \div TicksPerDay]

\* get_contacts as it would be with the filter on the owner left out.
get_contacts_unscoped(rows, user) == rows

\* repository get_contacts
get_contacts(rows, user) == {c \in rows : c.user_id = user}

\* get_contact_by_id as it would be with the filter on the owner left out.
get_contact_by_id_unscoped(rows, user, contact_id) ==
    first({c \in rows : c.id = contact_id})

\* repository get_contact_by_id
get_contact_by_id(rows, user, contact_id) ==
    first({c \in rows : c.id = contact_id /\ c.user_id = user})

\* get_next_week_birthday_contacts as it would be without the upper bound.
get_next_week_birthday_contacts_from_today(rows, user, today) ==
    {c \in rows :
        /\ TextLeq(to_char(today), to_char(c.birthday))
        /\ c.user_id = user}

\* repository get_next_week_birthday_contacts
get_next_week_birthday_contacts(rows, user, today) ==
    LET next_week == AddDays(today, 7)
    IN  {c \in rows :
            /\ TextLeq(to_char(today), to_char(c.birthday))
            /\ TextLeq(to_char(c.birthday), to_char(next_week))
            /\ c.user_id = user}

\* get_contact_by_email as it would be with the filter on the owner left out.
get_contact_by_email_unscoped(rows, user, email) ==
    {c \in rows : ILike(c.email, email)}

\* repository get_contact_by_email: the rows its query matches; first() of an
\* unordered query returns any one of them, and the caller only tests it.
get_contact_by_email(rows, user, email) ==
    {c \in rows : ILike(c.email, email) /\ c.user_id = user}

\* get_contact_by_firstname as it would be comparing with == for ilike.
get_contact_by_firstname_exact(rows, user, firstname) ==
    {c \in rows : c.firstname = firstname /\ c.user_id = user}

\* repository get_contact_by_firstname
get_contact_by_firstname(rows, user, firstname) ==
    {c \in rows : ILike(c.firstname, firstname) /\ c.user_id = user}

\* repository get_contact_by_lastname
get_contact_by_lastname(rows, user, lastname) ==
    {c \in rows : ILike(c.lastname, lastname) /\ c.user_id = user}

\* create as it would be with notes left out of the new row.
create_without_notes(rows, user, body, id, clock) ==
    LET contact == [id |-> id,
                    firstname |-> body.firstname, lastname |-> body.lastname,
                    email |-> body.email, phone |-> body.phone,
                    birthday |-> body.birthday, notes |-> "",
                    user_id |-> user, created_at |-> clock, updated_at |-> clock]
    IN  [rows |-> rows \cup {contact}, ret |-> contact]

\* repository create: the row INSERTed (id from the sequence, both
\* timestamps defaulting to the store's now()) and the table after it.
create(rows, user, body, id, clock) ==
    LET contact == [id |-> id,
                    firstname |-> body.firstname, lastname |-> body.lastname,
                    email |-> body.email, phone |-> body.phone,
                    birthday |-> body.birthday, notes |-> body.notes,
                    user_id |-> user, created_at |-> clock, updated_at |-> clock]
    IN  [rows |-> rows \cup {contact}, ret |-> contact]

\* update as it would be fetching the contact by its id alone.
update_unscoped(rows, user, contact_id, body, clock) ==
    LET contact == first({c \in rows : c.id = contact_id})
    IN  IF contact # None
        THEN LET dirty == \E f \in BodyFields : contact[f] # body[f]
                 new == [contact EXCEPT
                            !.firstname = body.firstname, !.lastname = body.lastname,
                            !.phone = body.phone, !.email = body.email,
                            !.birthday = body.birthday, !.notes = body.notes,
                            !.updated_at = IF dirty THEN clock ELSE @]
             IN  [rows |-> (rows \ {contact}) \cup {new}, ret |-> new]
        ELSE [rows |-> rows, ret |-> None]

\* update as it would be with the assignment of phone left out.
update_without_phone(rows, user, contact_id, body, clock) ==
    LET contact == get_contact_by_id(rows, user, contact_id)
    IN  IF contact # None
        THEN LET dirty == \E f \in BodyFields \ {"phone"} : contact[f] # body[f]
                 new == [contact EXCEPT
                            !.firstname = body.firstname, !.lastname = body.lastname,
                            !.email = body.email,
                            !.birthday = body.birthday, !.notes = body.notes,
                            !.updated_at = IF dirty THEN clock ELSE @]
             IN  [rows |-> (rows \ {contact}) \cup {new}, ret |-> new]
        ELSE [rows |-> rows, ret |-> None]

\* update as it would be with no onupdate on the updated_at column.
update_without_onupdate(rows, user, contact_id, body, clock) ==
    LET contact == get_contact_by_id(rows, user, contact_id)
    IN  IF contact # None
        THEN LET new == [contact EXCEPT
                            !.firstname = body.firstname, !.lastname = body.lastname,
                            !.phone = body.phone, !.email = body.email,
                            !.birthday = body.birthday, !.notes = body.notes]
             IN  [rows |-> (rows \ {contact}) \cup {new}, ret |-> new]
        ELSE [rows |-> rows, ret |-> None]

\* repository update: the UPDATE is issued at commit only when a field
\* differs from the loaded row, and onupdate sets updated_at with it.
update(rows, user, contact_id, body, clock) ==
    LET contact == get_contact_by_id(rows, user, contact_id)
    IN  IF contact # None
        THEN LET dirty == \E f \in BodyFields : contact[f] # body[f]
                 new == [contact EXCEPT
                            !.firstname = body.firstname, !.lastname = body.lastname,
                            !.phone = body.phone, !.email = body.email,
                            !.birthday = body.birthday, !.notes = body.notes,
                            !.updated_at = IF dirty THEN clock ELSE @]
             IN  [rows |-> (rows \ {contact}) \cup {new}, ret |-> new]
        ELSE [rows |-> rows, ret |-> None]

\* remove as it would be with db.delete(contact) left out.
remove_without_delete(rows, user, contact_id) ==
    LET contact == get_contact_by_id(rows, user, contact_id)
    IN  [rows |-> rows, ret |-> contact]

\* repository remove
remove(rows, user, contact_id) ==
    LET contact == get_contact_by_id(rows, user, contact_id)
    IN  IF contact # None
        THEN [rows |-> rows \ {contact}, ret |-> contact]
        ELSE [rows |-> rows, ret |-> None]

\* ContactResponse (orm_mode): building the response reads
\* days_to_next_birthday of every contact returned; an exception there is an
\* unhandled error of the request (500).
ContactResponse(contacts, today, ok) ==
    IF \E c \in contacts : days_to_next_birthday(c, today).raised THEN 500 ELSE ok

\* What a request leaves behind: the route, its caller and arguments, the
\* HTTP status, and what the repository function returned (one contact or
\* None in ret, a list in list).
Response(op, user, id, arg, status, ret, list) ==
    [op |-> op, user |-> user, id |-> id, arg |-> arg, status |-> status,
     ret |-> ret, list |-> list]

\* The session of a request that has not started.
Idle == [pc |-> "idle"]

Init ==
    /\ db = {}
    /\ nextId = 1
    /\ now \in ClockInstants
    /\ resp = Response("none", 0, 0, None, 0, None, {})
    /\ sessions = [r \in Reqs |-> Idle]

\* The clock moves on.
Tick ==
    /\ \E t \in ClockInstants : Stamp(t) > Stamp(now) /\ now' = t
    /\ UNCHANGED <<db, nextId, resp, sessions>>

\* GET /contacts/
route_get_contacts(user) ==
    LET contacts == get_contacts(db, user)
    IN  /\ resp' = Response("get_contacts", user, 0, None,
                            ContactResponse(contacts, now, 200), None, contacts)
        /\ UNCHANGED <<db, nextId, now, sessions>>

\* GET /contacts/{contact_id}
get_contact(user, contact_id) ==
    LET contact == get_contact_by_id(db, user, contact_id)
    IN  /\ resp' = IF contact = None
                   THEN Response("get_contact", user, contact_id, None, 404, None, {})
                   ELSE Response("get_contact", user, contact_id, None,
                                 ContactResponse({contact}, now, 200), contact, {})
        /\ UNCHANGED <<db, nextId, now, sessions>>

\* GET /contacts/search_by_lastname/...
route_get_contact_by_lastname(user, lastname) ==
    LET contacts == get_contact_by_lastname(db, user, lastname)
    IN  /\ resp' = Response("get_contact_by_lastname", user, 0, lastname,
                            ContactResponse(contacts, now, 200), None, contacts)
        /\ UNCHANGED <<db, nextId, now, sessions>>

\* GET /contacts/search_by_firstname/...
route_get_contact_by_firstname(user, firstname) ==
    LET contacts == get_contact_by_firstname(db, user, firstname)
    IN  /\ resp' = Response("get_contact_by_firstname", user, 0, firstname,
                            ContactResponse(contacts, now, 200), None, contacts)
        /\ UNCHANGED <<db, nextId, now, sessions>>

\* GET /contacts/next_week_birthday/
route_next_week_birthday(user) ==
    LET contacts == get_next_week_birthday_contacts(db, user, now)
    IN  /\ resp' = Response("next_week_birthday", user, 0, None,
                            ContactResponse(contacts, now, 200), None, contacts)
        /\ UNCHANGED <<db, nextId, now, sessions>>

\* POST /contacts/ (the sequence hands out ids up to MaxId)
create_contact(user, body) ==
    IF get_contact_by_email(db, user, body.email) # {}
    THEN /\ resp' = Response("create_contact", user, 0, body, 409, None, {})
         /\ UNCHANGED <<db, nextId, now, sessions>>
    ELSE /\ nextId <= MaxId
         /\ LET r == create(db, user, body, nextId, now)
            IN  /\ db' = r.rows
                /\ resp' = Response("create_contact", user, 0, body,
                                    ContactResponse({r.ret}, now, 201), r.ret, {})
         /\ nextId' = nextId + 1
         /\ UNCHANGED <<now, sessions>>

\* PUT /contacts/{contact_id}
update_contact(user, contact_id, body) ==
    LET r == update(db, user, contact_id, body, now)
    IN  /\ db' = r.rows
        /\ resp' = IF r.ret = None
                   THEN Response("update_contact", user, contact_id, body, 404, None, {})
                   ELSE Response("update_contact", user, contact_id, body,
                                 ContactResponse({r.ret}, now, 200), r.ret, {})
        /\ UNCHANGED <<nextId, now, sessions>>

\* DELETE /contacts/{contact_id}
remove_contact(user, contact_id) ==
    LET r == remove(db, user, contact_id)
    IN  /\ db' = r.rows
        /\ resp' = IF r.ret = None
                   THEN Response("remove_contact", user, contact_id, None, 404, None, {})
                   ELSE Response("remove_contact", user, contact_id, None, 204, r.ret, {})
        /\ UNCHANGED <<nextId, now, sessions>>

Next ==
    \/ Tick
    \/ \E user \in Users : route_get_contacts(user)
    \/ \E user \in Users, contact_id \in Ids : get_contact(user, contact_id)
    \/ \E user \in Users, lastname \in Texts : route_get_contact_by_lastname(user, lastname)
    \/ \E user \in Users, firstname \in Texts : route_get_contact_by_firstname(user, firstname)
    \/ \E user \in Users : route_next_week_birthday(user)
    \/ \E user \in Users, body \in Bodies : create_contact(user, body)
    \/ \E user \in Users, contact_id \in Ids, body \in Bodies :
           update_contact(user, contact_id, body)
    \/ \E user \in Users, contact_id \in Ids : remove_contact(user, contact_id)

Spec == Init /\ [][Next]_vars

(* ------------------------------ properties ----------------------------- *)

\* The contacts of the table that user owns.
Owned(rows, user) == {c \in rows : c.user_id = user}

\* The contact of the table with this id that user owns, as a set.
OwnedById(rows, user, id) == {c \in rows : c.id = id /\ c.user_id = user}

\* C1: in every reachable state, for every contact C and every user U,
\* get_contact_by_id(U, C.id) returns C when U owns C and None when another
\* user owns it; the route answers 404 exactly when it got None, so a request
\* for a contact of another user is answered 404.
C1_GetIsScopedToOwner ==
    /\ \A c \in db : \A u \in Users :
           get_contact_by_id(db, u, c.id) = IF u = c.user_id THEN c ELSE None
    /\ resp.op = "get_contact" =>
           /\ (resp.status = 404) <=> (resp.ret = None)
           /\ resp.ret = None <=> OwnedById(db, resp.user, resp.id) = {}
           /\ resp.ret # None => resp.ret \in OwnedById(db, resp.user, resp.id)

\* A request for a contact that exists and belongs to another user got 404.
C1_Witness ==
    /\ resp.op = "get_contact"
    /\ resp.status = 404
    /\ \E c \in db : c.id = resp.id /\ c.user_id # resp.user

\* The step is the request that resp' records.
IsUpdate == resp'.op = "update_contact" /\ update_contact(resp'.user, resp'.id, resp'.arg)

IsRemove == resp'.op = "remove_contact" /\ remove_contact(resp'.user, resp'.id)

IsCreate == resp'.op = "create_contact" /\ create_contact(resp'.user, resp'.arg)

IsGet == resp'.op = "get_contact" /\ get_contact(resp'.user, resp'.id)

IsBirthdays == resp'.op = "next_week_birthday" /\ route_next_week_birthday(resp'.user)

C3_ListsAreScopedToOwner ==
    /\ \A u \in Users :
           /\ get_contacts(db, u) = Owned(db, u)
           /\ get_next_week_birthday_contacts(db, u, now) \subseteq Owned(db, u)
           /\ \A t \in Texts :
                  /\ get_contact_by_firstname(db, u, t) \subseteq Owned(db, u)
                  /\ get_contact_by_lastname(db, u, t) \subseteq Owned(db, u)
           /\ \A b \in Bodies : get_contact_by_email(db, u, b.email) \subseteq Owned(db, u)
    /\ resp.op \in {"get_contacts", "get_contact_by_firstname",
                    "get_contact_by_lastname", "next_week_birthday"} =>
           resp.list \subseteq Owned(db, resp.user)
    /\ resp.op = "get_contacts" => resp.list = Owned(db, resp.user)

\* A user listed their contacts while another user had contacts too.
C3_Witness ==
    /\ resp.op = "get_contacts"
    /\ resp.list # {}
    /\ \E c \in db : c.user_id # resp.user

\* C4: a create request by a user who owns a contact with the same email is
\* answered 409 and adds no contact; a create request by a user who owns no
\* contact is never answered 409, whatever the other users own.
C4_DuplicateEmailConflict ==
    [][IsCreate =>
          /\ (\E c \in Owned(db, resp'.user) : c.email = resp'.arg.email) =>
                 /\ resp'.status = 409
                 /\ db' = db
                 /\ nextId' = nextId
          /\ Owned(db, resp'.user) = {} => resp'.status # 409]_vars

\* A second create with the same email by the same user was answered 409,
\* after another user had created a contact with that email too.
C4_Witness ==
    /\ resp.op = "create_contact"
    /\ resp.status = 409
    /\ \E c \in Owned(db, resp.user) : c.email = resp.arg.email
    /\ \E c \in db : c.user_id # resp.user /\ c.email = resp.arg.email

\* C5: after create(U, body) returned contact C, get_contact_by_id(U, C.id)
\* returns a contact with the six fields of body, owner U, and created_at and
\* updated_at both set to the same instant.
C5_CreateThenGet ==
    (resp.op = "create_contact" /\ resp.ret # None) =>
        LET got == get_contact_by_id(db, resp.user, resp.ret.id)
        IN  /\ got # None
            /\ \A f \in BodyFields : got[f] = resp.arg[f]
            /\ got.user_id = resp.user
            /\ got.created_at \in ClockInstants
            /\ got.updated_at = got.created_at

\* A contact with notes was created while another contact existed.
C5_Witness ==
    /\ resp.op = "create_contact"
    /\ resp.ret # None
    /\ resp.arg.notes # ""
    /\ Cardinality(db) = 2

\* The contacts any read operation returns to user from the table.
AllReads(rows, user, today) ==
    get_contacts(rows, user)
    \cup get_next_week_birthday_contacts(rows, user, today)
    \cup UNION {get_contact_by_firstname(rows, user, t) : t \in Texts}
    \cup UNION {get_contact_by_lastname(rows, user, t) : t \in Texts}
    \cup UNION {get_contact_by_email(rows, user, b.email) : b \in Bodies}

\* C6: a remove of a contact the caller owns returns that record and deletes
\* it: the table afterwards is the table before without it, so every other
\* contact is unchanged, get_contact_by_id finds nothing under its id and no
\* list, search or birthday query returns it; and an id that was handed out
\* and has no contact never has one again.
C6_RemoveIsHardDelete ==
    [][/\ (IsRemove /\ OwnedById(db, resp'.user, resp'.id) # {}) =>
              \A c \in OwnedById(db, resp'.user, resp'.id) :
                  /\ resp'.ret = c
                  /\ resp'.status = 204
                  /\ db' = db \ {c}
                  /\ get_contact_by_id(db', resp'.user, c.id) = None
                  /\ \A v \in Users : \A r \in AllReads(db', v, now') : r.id # c.id
       /\ \A id \in Ids :
              (id < nextId /\ \A c \in db : c.id # id) => \A c \in db' : c.id # id]_vars

\* A get of a removed contact's id was answered 404 while another contact
\* was still there.
C6_Witness ==
    /\ resp.op = "get_contact"
    /\ resp.status = 404
    /\ resp.id < nextId
    /\ \A c \in db : c.id # resp.id
    /\ db # {}

\* C7: an update of a contact the caller owns replaces its six mutable fields
\* by those of body and keeps its id, owner and created_at, and every other
\* contact is unchanged; a new contact is owned by the user who created it
\* and no step changes the owner of a contact.
C7_UpdateFrame ==
    [][/\ (IsUpdate /\ OwnedById(db, resp'.user, resp'.id) # {}) =>
              \A c \in OwnedById(db, resp'.user, resp'.id) :
                  /\ resp'.ret \in db'
                  /\ \A f \in BodyFields : resp'.ret[f] = resp'.arg[f]
                  /\ resp'.ret.id = c.id
                  /\ resp'.ret.user_id = c.user_id
                  /\ resp'.ret.created_at = c.created_at
                  /\ db' \ {resp'.ret} = db \ {c}
       /\ IsCreate => \A c \in db' \ db : c.user_id = resp'.user
       /\ \A c \in db : \A d \in db' : c.id = d.id => d.user_id = c.user_id]_vars

\* An update changed a contact while a contact of another user existed.
C7_Witness ==
    /\ resp.op = "update_contact"
    /\ resp.ret # None
    /\ resp.ret.phone = resp.arg.phone
    /\ resp.ret.updated_at # resp.ret.created_at
    /\ \E c \in db : c.user_id # resp.user

InNextWeek(birthday, today) ==
    \E k \in 0..7 :
        LET day == AddDays(today, k)
        IN  day.month = birthday.month /\ day.day = birthday.day

\* C9 as stated: the birthday query returns to U exactly the contacts U owns
\* whose birthday's month and day fall on today or one of the 7 days after.
C9_BirthdayWindowExact ==
    [][IsBirthdays =>
          resp'.list = {c \in Owned(db, resp'.user) : InNextWeek(c.birthday, now)}]_vars

\* C10 as stated: whenever a contact is read, days_to_next_birthday is
\* computed without error and lies in 0..365.
C10_DaysToNextBirthdayInRange ==
    [][(IsGet /\ resp'.ret # None) =>
          /\ ~days_to_next_birthday(resp'.ret, now).raised
          /\ days_to_next_birthday(resp'.ret, now).value \in 0..365
          /\ resp'.status = 200]_vars

(* --------------------------- the name searches -------------------------- *)

\* Search texts: one first name and one last name in three spellings, a text
\* no name matches, and a text with a pattern character.
SearchTexts ==
    {<<"t", "a">>, <<"T", "A">>, <<"T", "a">>, <<"s", "h">>, <<"S", "H">>,
     <<"z", "z">>, <<"_", "h">>}

\* Contacts are created and the two searches are called with SearchTexts.
NextSearch ==
    \/ \E user \in Users, body \in Bodies : create_contact(user, body)
    \/ \E user \in Users, lastname \in SearchTexts :
           route_get_contact_by_lastname(user, lastname)
    \/ \E user \in Users, firstname \in SearchTexts :
           route_get_contact_by_firstname(user, firstname)

SpecSearch == Init /\ [][NextSearch]_vars

\* The text in lower case.
LowerText(text) == [i \in 1..Len(text) |-> Lower(text[i])]

\* The text holds none of the characters a LIKE pattern gives a meaning to.
IsPlain(text) == \A i \in 1..Len(text) : text[i] \notin {"%", "_", "\\"}

C13_NoDuplicateEmails ==
    \A c \in db : \A d \in db :
        (c.id # d.id /\ c.user_id = d.user_id) =>
            LowerText(c.email) # LowerText(d.email)

\* C15 as stated: a create request by a user who owns no contact with an
\* email equal to the new one ignoring case is not answered 409; it adds
\* exactly one contact, owned by that user.
C15_ConflictOnlyOnEqualEmail ==
    [][(IsCreate /\ \A c \in Owned(db, resp'.user) :
                        LowerText(c.email) # LowerText(resp'.arg.email)) =>
          /\ resp'.status # 409
          /\ db \subseteq db'
          /\ Cardinality(db' \ db) = 1
          /\ \A c \in db' \ db : c.user_id = resp'.user]_vars

(* --------------------------- the birthday window ------------------------ *)

\* The years the clock is read in: a common year and the leap year after it.
CalYears == {2023, 2024}

\* Every instant of those years, to the resolution of a tick.
CalInstants ==
    {dt \in [year : CalYears, month : 1..12, day : 1..31, tod : 0..(TicksPerDay - 1)] :
        ValidDate(dt.year, dt.month, dt.day)}

\* Bodies with a birthday at midnight: one in spring, one in the first days
\* of January.
Body3 == [Body2 EXCEPT !.birthday = DT(1814, 3, 9, 0), !.email = <<"k", "@", "u">>]

Body4 == [Body1 EXCEPT !.birthday = DT(2001, 1, 2, 0)]

\* The instant the stored contacts were created at, before CalYears.
CalCreated == DT(2022, 1, 1, 0)

\* The table after user 1 created contacts from Body2 and Body3 and user 2
\* one from Body4.
CalRows ==
    create(create(create({}, 1, Body2, 1, CalCreated).rows,
                  1, Body3, 2, CalCreated).rows,
           2, Body4, 3, CalCreated).rows

\* The contacts are stored and the birthday route is called at any instant.
InitCal ==
    /\ db = CalRows
    /\ nextId = 4
    /\ now \in CalInstants
    /\ resp = Response("none", 0, 0, None, 0, None, {})
    /\ sessions = [r \in Reqs |-> Idle]

NextCal == \E user \in Users : route_next_week_birthday(user)

SpecCal == InitCal /\ [][NextCal]_vars

\* The 'MM-DD' text of today is greater than that of today + 7 days.
YearEnd(today) == ~TextLeq(to_char(today), to_char(AddDays(today, 7)))

\* A birthday on every day of the calendar, 29 February included.
Birthdays == {dt \in [year : {2000}, month : 1..12, day : 1..31, tod : {0}] :
                 ValidDate(dt.year, dt.month, dt.day)}

C16_WindowAgreesWithDayCount ==
    resp.op = "next_week_birthday" =>
        \A c \in resp.list :
            /\ ~days_to_next_birthday(c, now).raised
            /\ days_to_next_birthday(c, now).value \in 0..7
            /\ (c.birthday.month = now.month /\ c.birthday.day = now.day) =>
                   days_to_next_birthday(c, now).value = 0

(* --------------------------- concurrent updates ------------------------- *)

\* Bodies that differ from Body1 in one field only, the phone or the notes.
BodyPhone == [Body1 EXCEPT !.phone = Body2.phone]

BodyNotes == [Body1 EXCEPT !.notes = Body2.notes]

ConcBodies == {BodyPhone, BodyNotes, Body2}

\* The row an UPDATE ... WHERE id = contact_id acts on at the store's standard
\* isolation level: the version of the row committed last, whatever version
\* the session loaded; None when the row is gone.
committed_row(rows, contact_id) == first({c \in rows : c.id = contact_id})

\* repository update up to the assignments: the session loads the contact
\* scoped by owner, which begins its transaction; without a contact the
\* request ends with 404.
update_fetch(r, user, contact_id, body) ==
    LET contact == get_contact_by_id(db, user, contact_id)
    IN  /\ sessions[r].pc = "idle"
        /\ IF contact = None
           THEN /\ sessions' = [sessions EXCEPT ![r] = [pc |-> "done"]]
                /\ resp' = Response("update_contact", user, contact_id, body, 404, None, {})
           ELSE /\ sessions' = [sessions EXCEPT ![r] =
                                   [pc |-> "loaded", user |-> user, body |-> body,
                                    contact |-> contact, began |-> now]]
                /\ UNCHANGED resp
        /\ UNCHANGED <<db, nextId, now>>

\* repository update from db.commit(): the flush writes the columns whose
\* assigned value differs from the loaded one, and updated_at with them (the
\* store's now() is the instant the transaction began); nothing is written
\* when no column differs. The contact returned is read again after commit.
update_commit(r) ==
    LET s == sessions[r]
        dirty == {f \in BodyFields : s.contact[f] # s.body[f]}
        row == committed_row(db, s.contact.id)
        new == [f \in DOMAIN row |->
                   IF f \in dirty THEN s.body[f]
                   ELSE IF f = "updated_at" THEN s.began ELSE row[f]]
    IN  /\ s.pc = "loaded"
        /\ sessions' = [sessions EXCEPT ![r] = [pc |-> "done"]]
        /\ IF row = None
           THEN /\ resp' = Response("update_contact", s.user, s.contact.id, s.body,
                                    500, None, {})
                /\ UNCHANGED db
           ELSE IF dirty = {}
           THEN /\ resp' = Response("update_contact", s.user, s.contact.id, s.body,
                                    ContactResponse({row}, now, 200), row, {})
                /\ UNCHANGED db
           ELSE /\ db' = (db \ {row}) \cup {new}
                /\ resp' = Response("update_contact", s.user, s.contact.id, s.body,
                                    ContactResponse({new}, now, 200), new, {})
        /\ UNCHANGED <<nextId, now>>

\* User 1 has created a contact from Body1.
InitConc ==
    /\ db = create({}, 1, Body1, 1, DT(2023, 12, 28, 0)).rows
    /\ nextId = 2
    /\ now \in ClockInstants
    /\ resp = Response("none", 0, 0, None, 0, None, {})
    /\ sessions = [r \in Reqs |-> Idle]

\* Update requests run in steps that interleave with each other, with
\* removes and with the clock.
NextConc ==
    \/ Tick
    \/ \E r \in Reqs, user \in Users, contact_id \in Ids, body \in ConcBodies :
           update_fetch(r, user, contact_id, body)
    \/ \E r \in Reqs : update_commit(r)
    \/ \E user \in Users, contact_id \in Ids : remove_contact(user, contact_id)

SpecConc == InitConc /\ [][NextConc]_vars

\* C12 as stated: when an update commits, the six fields of the contact are
\* those of its body, also when another update of the same contact ran
\* between its fetch and its commit; never a mixture of the two bodies.
C12_LastWriterWins ==
    [][\A r \in Reqs :
          (update_commit(r) /\ committed_row(db, resp'.id) # None) =>
              \A c \in db' :
                  c.id = resp'.id => \A f \in BodyFields : c[f] = resp'.arg[f]]_vars

====
